---- MODULE Spec2Model ----
(***************************************************************************)
(* Ledger, debt recalculation, price catalogue and reports of the          *)
(* flower-shop application.                                                *)
(*                                                                         *)
(* The model follows src/flower-shop_app.py (the Streamlit variant; the    *)
(* Daily Sheet and recalculate_debts of src/app_v1.0.py are line-for-line  *)
(* the same) and, for the desktop variant, src/desktop_app.py.  Each form  *)
(* submission is one action: the write, the commit and the                 *)
(* recalculate_debts calls that follow it in the handler.                  *)
(*                                                                         *)
(* Amounts are integers (the code uses REAL; the sums are taken in the     *)
(* same order on both sides of every comparison made here).  Dates are day *)
(* numbers; "%Y-%m-%d" strings order the same way.                         *)
(***************************************************************************)
EXTENDS Integers, FiniteSets, Sequences, TLC

VARIABLES
    FlowerMaster,    \* table FlowerMaster: rows [Name, DisplayName]
    CustomerMaster,  \* table CustomerMaster: rows [Name, Address, ContactNo, DisplayName]
    BuyerMaster,     \* table BuyerMaster: rows [Name, Address, ContactNo, DisplayName]
    DailySheet,      \* table DailySheet: the ledger rows
    seq,             \* sqlite_sequence of DailySheet: the largest Id handed out so far
    flowers,         \* desktop variant, table flowers: rows [id, name]
    flowers_seq,     \* desktop variant, sqlite_sequence of flowers
    DailyFlowerPrice, \* table DailyFlowerPrice: rows [FlowerName, Date, Price]
    customers,       \* desktop variant, table customers: rows [id, name, address, phone]
    customers_seq,   \* desktop variant, sqlite_sequence of customers
    flower_prices,   \* desktop variant, table flower_prices: rows [flower_id, price_date, price]
    daily_entries,   \* desktop variant, table daily_entries
    daily_entries_seq, \* desktop variant, sqlite_sequence of daily_entries
    cb_customer,     \* desktop variant, Daily Entry: the items of the customer combo box
    cb_flower,       \* desktop variant, Daily Entry: the items of the flower combo box
    cb_flower_current, \* desktop variant, Daily Entry: currentData of the flower combo box (0: no item)
    d_date,          \* desktop variant, Daily Entry: the date of the date field
    rate_field,      \* desktop variant, Daily Entry: the value of the rate field (self.rate)
    last             \* the last completed operation

\* the desktop tables other than flowers
desktopRest == <<customers, customers_seq, flower_prices, daily_entries, daily_entries_seq, cb_customer, cb_flower,
                 cb_flower_current, d_date, rate_field>>

vars == <<FlowerMaster, CustomerMaster, BuyerMaster, DailySheet, seq, flowers, flowers_seq,
          DailyFlowerPrice, desktopRest, last>>

(***************************************************************************)
(* Bounds and input domains                                                *)
(***************************************************************************)
\* largest Id the AUTOINCREMENT counter may hand out in a run
MaxId == 3

\* the same, for the runs that vary dates and quantities
MaxWideId == 2

\* largest id the AUTOINCREMENT counter of the desktop flowers table may hand out
MaxFlowerId == 3

\* largest number of rows added to the Daily Sheet and the desktop Daily Entry
\* together in a run of both
MaxEntryId == 2

Dates == {1, 2}
Qtys == {1, 2}
Rates == {2}
FlowerNames == {"Rose"}
CustomerNames == {"c1"}
BuyerNames == {"A", "B"}
Directions == {"Debit", "Credit"}
Prices == {0, 2}
DesktopFlowerTexts == {<<"r">>, <<"p">>}

(***************************************************************************)
(* Helpers                                                                 *)
(***************************************************************************)
\* get_flowers: SELECT concat(DisplayName,'-',Name) FROM FlowerMaster
get_flowers == {f.DisplayName \o "-" \o f.Name : f \in FlowerMaster}

\* get_customers: SELECT Name FROM CustomerMaster
get_customers == {c.Name : c \in CustomerMaster}

\* get_buyers: SELECT Name FROM BuyerMaster
get_buyers == {b.Name : b \in BuyerMaster}

\* row['Amount'] if row['DebitCredit'] == 'Credit' else -row['Amount']
SignedAmount(row) == IF row.DebitCredit = "Credit" THEN row.Amount ELSE 0 - row.Amount

\* as FirstById, for ORDER BY Date, Id
FirstByDate(rows) ==
    CHOOSE r \in rows : \A x \in rows : r.Date < x.Date \/ (r.Date = x.Date /\ r.Id <= x.Id)

\* the row of a non-empty set of rows that ORDER BY Id puts first
FirstById(rows) == CHOOSE r \in rows : \A x \in rows : r.Id <= x.Id

\* as SetDebt, but without the Id condition: WHERE DebitCredit = 'Credit'
SetDebtNoId(sheet, id, debt) ==
    {IF r.DebitCredit = "Credit" THEN [r EXCEPT !.Debt = debt] ELSE r : r \in sheet}

\* as SetDebt, but adding to the stored value: SET Debt = Debt + ?
SetDebtIncrement(sheet, id, debt) ==
    {IF r.DebitCredit = "Credit" /\ r.Id = id THEN [r EXCEPT !.Debt = r.Debt + debt] ELSE r : r \in sheet}

\* UPDATE DailySheet SET Debt = ? WHERE DebitCredit = 'Credit' and Id = ?
SetDebt(sheet, id, debt) ==
    {IF r.DebitCredit = "Credit" /\ r.Id = id THEN [r EXCEPT !.Debt = debt] ELSE r : r \in sheet}

\* as RunningDebts, but the running sum is not carried from row to row
RECURSIVE RunningDebtsNoCarry(_, _, _)
RunningDebtsNoCarry(rows, running_debt, sheet) ==
    IF rows = {} THEN sheet
    ELSE LET row == FirstById(rows)
             running == running_debt + SignedAmount(row)
         IN  RunningDebtsNoCarry(rows \ {row}, running_debt, SetDebt(sheet, row.Id, running))

\* the loop of recalculate_debts over the fetched rows, in ORDER BY Id order
RECURSIVE RunningDebts(_, _, _)
RunningDebts(rows, running_debt, sheet) ==
    IF rows = {} THEN sheet
    ELSE LET row == FirstById(rows)
             running == running_debt + SignedAmount(row)
         IN  RunningDebts(rows \ {row}, running, SetDebt(sheet, row.Id, running))

\* as CreditRowsOf, but without the BuyerName condition
CreditRowsOfAnyBuyer(sheet, buyer_name) ==
    {r \in sheet : r.DebitCredit = "Credit"}

\* SELECT * FROM DailySheet WHERE DebitCredit = 'Credit' and BuyerName = ?
CreditRowsOf(sheet, buyer_name) ==
    {r \in sheet : r.DebitCredit = "Credit" /\ r.BuyerName = buyer_name}

\* as recalculate_debts, but the running sum starts from the Debt stored on
\* the first row instead of 0.0
recalculate_debts_from_stored(sheet, buyer_name) ==
    LET df == CreditRowsOf(sheet, buyer_name)
    IN  IF df = {} THEN sheet ELSE RunningDebts(df, FirstById(df).Debt, sheet)

recalculate_debts(sheet, buyer_name) ==
    LET df == CreditRowsOf(sheet, buyer_name)
    IN  IF df = {} THEN sheet ELSE RunningDebts(df, 0, sheet)

\* df_transactions['SignedAmount'].sum() over the rows WHERE BuyerName = ?
RECURSIVE SumSigned(_)
SumSigned(rows) ==
    IF rows = {} THEN 0
    ELSE LET r == CHOOSE x \in rows : TRUE
         IN  SignedAmount(r) + SumSigned(rows \ {r})

current_debt(sheet, buyer_name) == SumSigned({r \in sheet : r.BuyerName = buyer_name})

\* what `last` records: the outcome of the last operation, the Id of the row
\* it wrote or removed, the buyer it recalculated first (buyer_name of the add
\* form, old_buyer of the edit form) and the direction the row had before
\* (old_debit_credit of the edit form; the new row's for an add); for a
\* master-data form, the name submitted; for a price form, the flower (name,
\* or id for the desktop variant), the date (id) and the price submitted
Did(op) == [op |-> op, id |-> 0, buyer |-> "", dc |-> "", name |-> "", price |-> 0]
Named(op, name) == [op |-> op, id |-> 0, buyer |-> "", dc |-> "", name |-> name, price |-> 0]
Priced(op, flower, d, price) == [op |-> op, id |-> d, buyer |-> "", dc |-> "", name |-> flower, price |-> price]
NoOp == Did("none")

\* init_db leaves the price table and, in the desktop variant, the customers,
\* flower_prices and daily_entries tables empty; the Daily Entry tab is built
\* with empty combo boxes, today's date (day 1) and a rate of 0
NoPricesNoEntries ==
    /\ DailyFlowerPrice = {}
    /\ customers = {}
    /\ customers_seq = 0
    /\ flower_prices = {}
    /\ daily_entries = {}
    /\ daily_entries_seq = 0
    /\ cb_customer = {}
    /\ cb_flower = {}
    /\ cb_flower_current = 0
    /\ d_date = 1
    /\ rate_field = 0

(***************************************************************************)
(* Initial state: init_db on an empty database file                        *)
(***************************************************************************)
Init ==
    /\ FlowerMaster = {}
    /\ CustomerMaster = {}
    /\ BuyerMaster = {}
    /\ DailySheet = {}
    /\ seq = 0
    /\ flowers = {}
    /\ flowers_seq = 0
    /\ NoPricesNoEntries
    /\ last = NoOp

(***************************************************************************)
(* Master data forms                                                       *)
(***************************************************************************)
\* not text.strip(): the text is empty or white space only
IsBlank(text) == text \in {"", " "}

\* as InsertByName, for INSERT OR REPLACE: a row with the same Name is replaced
InsertOrReplaceByName(table, rec) ==
    [table |-> {r \in table : r.Name # rec.Name} \cup {rec}, IntegrityError |-> FALSE]

\* INSERT INTO a table whose Name is PRIMARY KEY: sqlite3.IntegrityError on a
\* duplicate, and then no row is written
InsertByName(table, rec) ==
    IF \E r \in table : r.Name = rec.Name
    THEN [table |-> table, IntegrityError |-> TRUE]
    ELSE [table |-> table \cup {rec}, IntegrityError |-> FALSE]

AddFlower(name, display_name) ==
    /\ name # ""
    /\ IF IsBlank(display_name)
       THEN /\ FlowerMaster' = FlowerMaster
            /\ last' = Named("flower_display_empty", name)
       ELSE LET res == InsertByName(FlowerMaster, [Name |-> name, DisplayName |-> display_name])
            IN  /\ FlowerMaster' = res.table
                /\ last' = Named(IF res.IntegrityError THEN "flower_exists" ELSE "flower_added", name)
    /\ UNCHANGED <<CustomerMaster, BuyerMaster, DailySheet, seq, flowers, flowers_seq, DailyFlowerPrice, desktopRest>>

UpdateFlower(selected_name, new_display_name) ==
    /\ selected_name \in {f.Name : f \in FlowerMaster}
    /\ IF IsBlank(new_display_name)
       THEN /\ FlowerMaster' = FlowerMaster
            /\ last' = Named("flower_display_empty", selected_name)
       ELSE /\ FlowerMaster' = {IF f.Name = selected_name
                                 THEN [f EXCEPT !.DisplayName = new_display_name]
                                 ELSE f : f \in FlowerMaster}
            /\ last' = Named("flower_updated", selected_name)
    /\ UNCHANGED <<CustomerMaster, BuyerMaster, DailySheet, seq, flowers, flowers_seq, DailyFlowerPrice, desktopRest>>

DeleteFlower(selected_name) ==
    /\ selected_name \in {f.Name : f \in FlowerMaster}
    /\ FlowerMaster' = {f \in FlowerMaster : f.Name # selected_name}
    /\ last' = Named("flower_deleted", selected_name)
    /\ UNCHANGED <<CustomerMaster, BuyerMaster, DailySheet, seq, flowers, flowers_seq, DailyFlowerPrice, desktopRest>>

AddCustomer(name, display_name, address, contact_no) ==
    /\ name # ""
    /\ IF IsBlank(display_name)
       THEN /\ CustomerMaster' = CustomerMaster
            /\ last' = Named("customer_display_empty", name)
       ELSE LET res == InsertByName(CustomerMaster,
                           [Name |-> name, Address |-> address, ContactNo |-> contact_no,
                            DisplayName |-> display_name])
            IN  /\ CustomerMaster' = res.table
                /\ last' = Named(IF res.IntegrityError THEN "customer_exists" ELSE "customer_added", name)
    /\ UNCHANGED <<FlowerMaster, BuyerMaster, DailySheet, seq, flowers, flowers_seq, DailyFlowerPrice, desktopRest>>

UpdateCustomer(selected_name, new_display_name, new_address, new_contact_no) ==
    /\ selected_name \in get_customers
    /\ IF IsBlank(new_display_name)
       THEN /\ CustomerMaster' = CustomerMaster
            /\ last' = Named("customer_display_empty", selected_name)
       ELSE /\ CustomerMaster' = {IF c.Name = selected_name
                                   THEN [c EXCEPT !.DisplayName = new_display_name,
                                                  !.Address = new_address,
                                                  !.ContactNo = new_contact_no]
                                   ELSE c : c \in CustomerMaster}
            /\ last' = Named("customer_updated", selected_name)
    /\ UNCHANGED <<FlowerMaster, BuyerMaster, DailySheet, seq, flowers, flowers_seq, DailyFlowerPrice, desktopRest>>

DeleteCustomer(selected_name) ==
    /\ selected_name \in get_customers
    /\ CustomerMaster' = {c \in CustomerMaster : c.Name # selected_name}
    /\ last' = Named("customer_deleted", selected_name)
    /\ UNCHANGED <<FlowerMaster, BuyerMaster, DailySheet, seq, flowers, flowers_seq, DailyFlowerPrice, desktopRest>>

AddBuyer(name, display_name, address, contact_no) ==
    /\ name # ""
    /\ IF IsBlank(display_name)
       THEN /\ BuyerMaster' = BuyerMaster
            /\ last' = Named("buyer_display_empty", name)
       ELSE LET res == InsertByName(BuyerMaster,
                           [Name |-> name, Address |-> address, ContactNo |-> contact_no,
                            DisplayName |-> display_name])
            IN  /\ BuyerMaster' = res.table
                /\ last' = Named(IF res.IntegrityError THEN "buyer_exists" ELSE "buyer_added", name)
    /\ UNCHANGED <<FlowerMaster, CustomerMaster, DailySheet, seq, flowers, flowers_seq, DailyFlowerPrice, desktopRest>>

UpdateBuyer(selected_name, new_display_name, new_address, new_contact_no) ==
    /\ selected_name \in get_buyers
    /\ IF IsBlank(new_display_name)
       THEN /\ BuyerMaster' = BuyerMaster
            /\ last' = Named("buyer_display_empty", selected_name)
       ELSE /\ BuyerMaster' = {IF c.Name = selected_name
                                THEN [c EXCEPT !.DisplayName = new_display_name,
                                               !.Address = new_address,
                                               !.ContactNo = new_contact_no]
                                ELSE c : c \in BuyerMaster}
            /\ last' = Named("buyer_updated", selected_name)
    /\ UNCHANGED <<FlowerMaster, CustomerMaster, DailySheet, seq, flowers, flowers_seq, DailyFlowerPrice, desktopRest>>

\* as DeleteBuyer, but with the ledger rows of the buyer removed as by
\* ON DELETE CASCADE
DeleteBuyerCascading(selected_name) ==
    /\ selected_name \in get_buyers
    /\ BuyerMaster' = {b \in BuyerMaster : b.Name # selected_name}
    /\ DailySheet' = {r \in DailySheet : r.BuyerName # selected_name}
    /\ last' = Named("buyer_deleted", selected_name)
    /\ UNCHANGED <<FlowerMaster, CustomerMaster, seq, flowers, flowers_seq, DailyFlowerPrice, desktopRest>>

DeleteBuyer(selected_name) ==
    /\ selected_name \in get_buyers
    /\ BuyerMaster' = {b \in BuyerMaster : b.Name # selected_name}
    /\ last' = Named("buyer_deleted", selected_name)
    /\ UNCHANGED <<FlowerMaster, CustomerMaster, DailySheet, seq, flowers, flowers_seq, DailyFlowerPrice, desktopRest>>

(***************************************************************************)
(* Desktop variant (src/desktop_app.py): the flowers table.  A text is a   *)
(* sequence of characters.                                                 *)
(***************************************************************************)
\* str.strip(): leading and trailing white space removed
RECURSIVE StripLeft(_)
StripLeft(text) ==
    IF text # <<>> /\ Head(text) = " " THEN StripLeft(Tail(text)) ELSE text

RECURSIVE StripRight(_)
StripRight(text) ==
    IF text # <<>> /\ text[Len(text)] = " "
    THEN StripRight(SubSeq(text, 1, Len(text) - 1)) ELSE text

Strip(text) == StripRight(StripLeft(text))

\* INSERT INTO flowers (name) VALUES (?): id is AUTOINCREMENT, name is UNIQUE
InsertFlower(table, counter, n) ==
    IF \E f \in table : f.name = n
    THEN [table |-> table, counter |-> counter, IntegrityError |-> TRUE]
    ELSE [table |-> table \cup {[id |-> counter + 1, name |-> n]}, counter |-> counter + 1,
          IntegrityError |-> FALSE]

\* FlowerMasterTab.save_flower
save_flower(f_name) ==
    LET n == Strip(f_name)
    IN  /\ IF n = <<>>
           THEN /\ UNCHANGED <<flowers, flowers_seq>>
                /\ last' = Named("Flower name required", n)
           ELSE LET res == InsertFlower(flowers, flowers_seq, n)
                IN  /\ flowers' = res.table
                    /\ flowers_seq' = res.counter
                    /\ last' = Named(IF res.IntegrityError THEN "Flower already exists" ELSE "Saved", n)
        /\ UNCHANGED <<FlowerMaster, CustomerMaster, BuyerMaster, DailySheet, seq, DailyFlowerPrice, desktopRest>>

\* FlowerMasterTab.update_flower, with the flower row selected
update_flower(flower_editing_id, f_name) ==
    LET n == Strip(f_name)
    IN  /\ \E f \in flowers : f.id = flower_editing_id
        /\ IF n = <<>>
           THEN /\ flowers' = flowers
                /\ last' = Named("Flower name required", n)
           ELSE IF \E f \in flowers : f.name = n /\ f.id # flower_editing_id
           THEN /\ flowers' = flowers
                /\ last' = Named("Duplicate name", n)
           ELSE /\ flowers' = {IF f.id = flower_editing_id THEN [f EXCEPT !.name = n] ELSE f : f \in flowers}
                /\ last' = Named("Updated", n)
        /\ UNCHANGED <<FlowerMaster, CustomerMaster, BuyerMaster, DailySheet, seq, flowers_seq, DailyFlowerPrice, desktopRest>>

\* get_conn: sqlite3.connect(DB_NAME) and nothing else.  No connection runs
\* PRAGMA foreign_keys = ON, so SQLite does not enforce the FOREIGN KEY
\* clauses of init_db: their ON DELETE actions are not carried out
foreign_keys == FALSE

\* what DELETE FROM flowers WHERE id=? leaves of flower_prices, declared
\* FOREIGN KEY(flower_id) REFERENCES flowers(id) ON DELETE CASCADE
PricesAfterFlowerDelete(table, flower_id) ==
    IF foreign_keys THEN {e \in table : e.flower_id # flower_id} ELSE table

\* what it leaves of daily_entries, declared FOREIGN KEY(flower_id)
\* REFERENCES flowers(id) ON DELETE SET NULL (NULL is modelled as 0)
EntriesAfterFlowerDelete(table, flower_id) ==
    IF foreign_keys
    THEN {IF e.flower_id = flower_id THEN [e EXCEPT !.flower_id = 0] ELSE e : e \in table}
    ELSE table

\* FlowerMasterTab.delete_flower, with the flower row selected and confirmed
delete_flower(flower_editing_id) ==
    /\ \E f \in flowers : f.id = flower_editing_id
    /\ flowers' = {f \in flowers : f.id # flower_editing_id}
    /\ flower_prices' = PricesAfterFlowerDelete(flower_prices, flower_editing_id)
    /\ daily_entries' = EntriesAfterFlowerDelete(daily_entries, flower_editing_id)
    /\ last' = [Named("Deleted", <<>>) EXCEPT !.id = flower_editing_id]
    /\ UNCHANGED <<FlowerMaster, CustomerMaster, BuyerMaster, DailySheet, seq, flowers_seq, DailyFlowerPrice,
                   customers, customers_seq, daily_entries_seq, cb_customer, cb_flower,
                   cb_flower_current, d_date, rate_field>>

(***************************************************************************)
(* Daily Sheet                                                             *)
(***************************************************************************)
\* as NumberInputs, for a widget without min_value
NumberInputsUnbounded(min_value, values) == values

\* st.number_input(..., min_value=0.0): of the numbers entered, those that
\* the widget hands to the script
NumberInputs(min_value, values) == {v \in values : v >= min_value}

\* "New Debt" of the add form
AddNewDebt(sheet, debit_credit, buyer_name, amount) ==
    IF debit_credit = "Credit" THEN current_debt(sheet, buyer_name) + amount ELSE 0 - amount

\* as AddAccepted, but without the check of the buyer of a Credit row
AddAcceptedNoBuyerCheck(name, flower_name, debit_credit, buyer_name) ==
    /\ name # ""
    /\ flower_name # ""

\* the add form accepts the submission
AddAccepted(name, flower_name, debit_credit, buyer_name) ==
    /\ name # ""
    /\ flower_name # ""
    /\ ~(debit_credit = "Credit" /\ buyer_name = "")

\* the largest Id among the rows of a table, 0 for an empty table
LargestId(sheet) == IF sheet = {} THEN 0 ELSE CHOOSE i \in {r.Id : r \in sheet} : \A r \in sheet : r.Id <= i

\* as NextId, for a plain INTEGER PRIMARY KEY: one more than the largest
\* rowid in the table
NextIdRowid(sheet, counter) == LargestId(sheet) + 1

\* Id INTEGER PRIMARY KEY AUTOINCREMENT: one more than the largest Id ever
\* handed out, which sqlite_sequence records
NextId(sheet, counter) == counter + 1

AddTransaction(d, name, flower_name, qty, rate, debit_credit, buyer_name) ==
    LET amount == qty * rate
        new_debt == AddNewDebt(DailySheet, debit_credit, buyer_name, amount)
        row == [Id |-> NextId(DailySheet, seq), Date |-> d, Name |-> name, FlowerName |-> flower_name,
                Qty |-> qty, Rate |-> rate, Amount |-> amount, DebitCredit |-> debit_credit,
                Debt |-> new_debt, BuyerName |-> buyer_name]
    IN  /\ name \in {""} \cup get_customers
        /\ flower_name \in {""} \cup get_flowers
        /\ buyer_name \in {""} \cup get_buyers
        /\ IF AddAccepted(name, flower_name, debit_credit, buyer_name)
           THEN /\ DailySheet' = recalculate_debts(DailySheet \cup {row}, buyer_name)
                /\ seq' = NextId(DailySheet, seq)
                /\ last' = [op |-> "add", id |-> NextId(DailySheet, seq), buyer |-> buyer_name, dc |-> debit_credit, name |-> "", price |-> 0]
           ELSE /\ UNCHANGED <<DailySheet, seq>>
                /\ last' = Did("add_rejected")
        /\ UNCHANGED <<FlowerMaster, CustomerMaster, BuyerMaster, flowers, flowers_seq, DailyFlowerPrice, desktopRest>>

\* the edit form renders for the selected row: customers.index, flowers.index
\* and buyers.index raise ValueError when the stored value is not in the list
EditFormOpens(current_data) ==
    /\ current_data.Name \in get_customers
    /\ current_data.FlowerName \in get_flowers
    /\ current_data.BuyerName \in get_buyers

\* "New Debt" of the edit form
UpdateNewDebt(sheet, current_data, debit_credit, buyer_name, amount) ==
    LET old_signed == SignedAmount(current_data)
        temp_debt == IF buyer_name = current_data.BuyerName
                     THEN current_debt(sheet, buyer_name) - old_signed
                     ELSE current_debt(sheet, buyer_name)
        signed_amount == IF debit_credit = "Credit" THEN amount ELSE 0 - amount
    IN  temp_debt + signed_amount

\* as RecalcAfterUpdate, but only for the buyer the row had before
RecalcAfterUpdateOldOnly(sheet, old_buyer, buyer_name) ==
    recalculate_debts(sheet, old_buyer)

\* the recalculations that follow the UPDATE statement
RecalcAfterUpdate(sheet, old_buyer, buyer_name) ==
    LET s1 == recalculate_debts(sheet, old_buyer)
    IN  IF buyer_name # old_buyer THEN recalculate_debts(s1, buyer_name) ELSE s1

UpdateTransaction(selected_id, d, name, flower_name, qty, rate, debit_credit, buyer_name) ==
    \E current_data \in DailySheet :
        /\ current_data.Id = selected_id
        /\ EditFormOpens(current_data)
        /\ name \in get_customers
        /\ flower_name \in get_flowers
        /\ buyer_name \in get_buyers
        /\ LET old_buyer == current_data.BuyerName
               amount == qty * rate
               new_debt == UpdateNewDebt(DailySheet, current_data, debit_credit, buyer_name, amount)
               row == [Id |-> selected_id, Date |-> d, Name |-> name, FlowerName |-> flower_name,
                       Qty |-> qty, Rate |-> rate, Amount |-> amount, DebitCredit |-> debit_credit,
                       Debt |-> new_debt, BuyerName |-> buyer_name]
               written == (DailySheet \ {current_data}) \cup {row}
           IN  /\ DailySheet' = RecalcAfterUpdate(written, old_buyer, buyer_name)
               /\ last' = [op |-> "update", id |-> selected_id, buyer |-> old_buyer,
                         dc |-> current_data.DebitCredit, name |-> "", price |-> 0]
        /\ UNCHANGED <<FlowerMaster, CustomerMaster, BuyerMaster, seq, flowers, flowers_seq, DailyFlowerPrice, desktopRest>>

\* as RecalcAfterDelete, but without the recalculation
NoRecalcAfterDelete(sheet, old_buyer) == sheet

\* the recalculation that follows the DELETE statement
RecalcAfterDelete(sheet, old_buyer) == recalculate_debts(sheet, old_buyer)

DeleteTransaction(selected_id) ==
    \E current_data \in DailySheet :
        /\ current_data.Id = selected_id
        /\ EditFormOpens(current_data)
        /\ LET old_buyer == current_data.BuyerName
           IN  /\ DailySheet' = RecalcAfterDelete(DailySheet \ {current_data}, old_buyer)
               /\ last' = [op |-> "delete", id |-> selected_id, buyer |-> old_buyer,
                         dc |-> current_data.DebitCredit, name |-> "", price |-> 0]
        /\ UNCHANGED <<FlowerMaster, CustomerMaster, BuyerMaster, seq, flowers, flowers_seq, DailyFlowerPrice, desktopRest>>

(***************************************************************************)
(* The Daily Sheet handlers statement by statement: the write with its     *)
(* conn.commit() is one step and each recalculate_debts call that follows  *)
(* is one step.  Between the two `last` records the handler's position:    *)
(* the operation running and, in place of a name, the buyers of the calls  *)
(* still to be made.                                                       *)
(***************************************************************************)
Running == {"add_running", "update_running", "delete_running"}

\* the recalculate_debts calls that the running handler has still to make
Pending(l) == IF l.op \in Running THEN l.name ELSE <<>>

\* the operation that `last` records once the handler has returned
Finished(op) ==
    CASE op = "add_running" -> "add"
      [] op = "update_running" -> "update"
      [] op = "delete_running" -> "delete"

\* as RecalcsAfterUpdate, without the call for the new buyer
RecalcsAfterUpdateOldOnly(old_buyer, buyer_name) == <<old_buyer>>

\* recalculate_debts(conn, old_buyer); if buyer_name != old_buyer:
\* recalculate_debts(conn, buyer_name)
RecalcsAfterUpdate(old_buyer, buyer_name) ==
    IF buyer_name # old_buyer THEN <<old_buyer, buyer_name>> ELSE <<old_buyer>>

\* the add handler up to conn.commit()
InsertCommitted(d, name, flower_name, qty, rate, debit_credit, buyer_name) ==
    LET amount == qty * rate
        new_debt == AddNewDebt(DailySheet, debit_credit, buyer_name, amount)
        row == [Id |-> NextId(DailySheet, seq), Date |-> d, Name |-> name, FlowerName |-> flower_name,
                Qty |-> qty, Rate |-> rate, Amount |-> amount, DebitCredit |-> debit_credit,
                Debt |-> new_debt, BuyerName |-> buyer_name]
    IN  /\ Pending(last) = <<>>
        /\ name \in {""} \cup get_customers
        /\ flower_name \in {""} \cup get_flowers
        /\ buyer_name \in {""} \cup get_buyers
        /\ IF AddAccepted(name, flower_name, debit_credit, buyer_name)
           THEN /\ DailySheet' = DailySheet \cup {row}
                /\ seq' = NextId(DailySheet, seq)
                /\ last' = [op |-> "add_running", id |-> NextId(DailySheet, seq), buyer |-> buyer_name,
                          dc |-> debit_credit, name |-> <<buyer_name>>, price |-> 0]
           ELSE /\ UNCHANGED <<DailySheet, seq>>
                /\ last' = Did("add_rejected")
        /\ UNCHANGED <<FlowerMaster, CustomerMaster, BuyerMaster, flowers, flowers_seq, DailyFlowerPrice, desktopRest>>

\* the Update branch of the edit form up to conn.commit()
UpdateCommitted(selected_id, d, name, flower_name, qty, rate, debit_credit, buyer_name) ==
    \E current_data \in DailySheet :
        /\ Pending(last) = <<>>
        /\ current_data.Id = selected_id
        /\ EditFormOpens(current_data)
        /\ name \in get_customers
        /\ flower_name \in get_flowers
        /\ buyer_name \in get_buyers
        /\ LET old_buyer == current_data.BuyerName
               amount == qty * rate
               new_debt == UpdateNewDebt(DailySheet, current_data, debit_credit, buyer_name, amount)
               row == [Id |-> selected_id, Date |-> d, Name |-> name, FlowerName |-> flower_name,
                       Qty |-> qty, Rate |-> rate, Amount |-> amount, DebitCredit |-> debit_credit,
                       Debt |-> new_debt, BuyerName |-> buyer_name]
           IN  /\ DailySheet' = (DailySheet \ {current_data}) \cup {row}
               /\ last' = [op |-> "update_running", id |-> selected_id, buyer |-> old_buyer,
                         dc |-> current_data.DebitCredit,
                         name |-> RecalcsAfterUpdate(old_buyer, buyer_name), price |-> 0]
        /\ UNCHANGED <<FlowerMaster, CustomerMaster, BuyerMaster, seq, flowers, flowers_seq, DailyFlowerPrice, desktopRest>>

\* the Delete branch of the edit form up to conn.commit()
DeleteCommitted(selected_id) ==
    \E current_data \in DailySheet :
        /\ Pending(last) = <<>>
        /\ current_data.Id = selected_id
        /\ EditFormOpens(current_data)
        /\ DailySheet' = DailySheet \ {current_data}
        /\ last' = [op |-> "delete_running", id |-> selected_id, buyer |-> current_data.BuyerName,
                  dc |-> current_data.DebitCredit, name |-> <<current_data.BuyerName>>, price |-> 0]
        /\ UNCHANGED <<FlowerMaster, CustomerMaster, BuyerMaster, seq, flowers, flowers_seq, DailyFlowerPrice, desktopRest>>

\* the next recalculate_debts call of the running handler; after the last
\* one the handler returns
RecalculateNext ==
    /\ Pending(last) # <<>>
    /\ DailySheet' = recalculate_debts(DailySheet, Head(Pending(last)))
    /\ last' = IF Tail(Pending(last)) = <<>>
               THEN [last EXCEPT !.op = Finished(last.op), !.name = ""]
               ELSE [last EXCEPT !.name = Tail(Pending(last))]
    /\ UNCHANGED <<FlowerMaster, CustomerMaster, BuyerMaster, seq, flowers, flowers_seq, DailyFlowerPrice, desktopRest>>

(***************************************************************************)
(* Daily Flower Price                                                      *)
(***************************************************************************)
\* as UpsertPrice, for INSERT OR IGNORE: an existing entry keeps its price
InsertOrIgnorePrice(table, flower_name, d, price) ==
    IF \E e \in table : e.FlowerName = flower_name /\ e.Date = d
    THEN table
    ELSE table \cup {[FlowerName |-> flower_name, Date |-> d, Price |-> price]}

\* INSERT INTO DailyFlowerPrice, PRIMARY KEY (FlowerName, Date); on
\* sqlite3.IntegrityError UPDATE DailyFlowerPrice SET Price = ? for the key
UpsertPrice(table, flower_name, d, price) ==
    IF \E e \in table : e.FlowerName = flower_name /\ e.Date = d
    THEN {IF e.FlowerName = flower_name /\ e.Date = d THEN [e EXCEPT !.Price = price] ELSE e : e \in table}
    ELSE table \cup {[FlowerName |-> flower_name, Date |-> d, Price |-> price]}

\* as SetPrice, but the transactions of the flower and date are re-rated
SetPriceRepricing(flower_name, d, price) ==
    /\ flower_name \in get_flowers
    /\ DailyFlowerPrice' = UpsertPrice(DailyFlowerPrice, flower_name, d, price)
    /\ DailySheet' = {IF r.FlowerName = flower_name /\ r.Date = d
                       THEN [r EXCEPT !.Rate = price, !.Amount = r.Qty * price] ELSE r : r \in DailySheet}
    /\ last' = Priced("price_set", flower_name, d, price)
    /\ UNCHANGED <<FlowerMaster, CustomerMaster, BuyerMaster, seq, flowers, flowers_seq, desktopRest>>

\* set_price_form; flower_name is one of the labels of get_flowers
SetPrice(flower_name, d, price) ==
    /\ flower_name \in get_flowers
    /\ DailyFlowerPrice' = UpsertPrice(DailyFlowerPrice, flower_name, d, price)
    /\ last' = Priced(IF \E e \in DailyFlowerPrice : e.FlowerName = flower_name /\ e.Date = d
                      THEN "price_updated" ELSE "price_set", flower_name, d, price)
    /\ UNCHANGED <<FlowerMaster, CustomerMaster, BuyerMaster, DailySheet, seq, flowers, flowers_seq, desktopRest>>

\* edit_price_form, Update, for the selected entry "FlowerName - Date"
UpdatePrice(flower_name, d, new_price) ==
    /\ \E e \in DailyFlowerPrice : e.FlowerName = flower_name /\ e.Date = d
    /\ DailyFlowerPrice' = {IF e.FlowerName = flower_name /\ e.Date = d
                             THEN [e EXCEPT !.Price = new_price] ELSE e : e \in DailyFlowerPrice}
    /\ last' = Priced("price_edited", flower_name, d, new_price)
    /\ UNCHANGED <<FlowerMaster, CustomerMaster, BuyerMaster, DailySheet, seq, flowers, flowers_seq, desktopRest>>

\* edit_price_form, Delete, for the selected entry
DeletePrice(flower_name, d) ==
    /\ \E e \in DailyFlowerPrice : e.FlowerName = flower_name /\ e.Date = d
    /\ DailyFlowerPrice' = {e \in DailyFlowerPrice : ~(e.FlowerName = flower_name /\ e.Date = d)}
    /\ last' = Priced("price_deleted", flower_name, d, 0)
    /\ UNCHANGED <<FlowerMaster, CustomerMaster, BuyerMaster, DailySheet, seq, flowers, flowers_seq, desktopRest>>

\* what the price lookup of the add-transaction form yields: c.fetchone()
\* is None (modelled as <<>>) or the row <<Price>>
PriceResult(table, flower_name, d) ==
    IF \E e \in table : e.FlowerName = flower_name /\ e.Date = d
    THEN <<(CHOOSE e \in table : e.FlowerName = flower_name /\ e.Date = d).Price>>
    ELSE <<>>

\* default_rate = result[0] if result else 0.0
default_rate(table, flower_name, d) ==
    LET result == PriceResult(table, flower_name, d)
    IN  IF result # <<>> THEN result[1] ELSE 0

(***************************************************************************)
(* Desktop variant: flower prices.  The id column of flower_prices is only *)
(* the handle by which delete_price names a row; (flower_id, price_date)   *)
(* is UNIQUE, so a row is named here by that pair.                         *)
(***************************************************************************)
\* INSERT INTO flower_prices ... ON CONFLICT(flower_id, price_date) DO UPDATE
\* SET price=excluded.price
UpsertFlowerPrice(table, flower_id, d, p) ==
    IF \E e \in table : e.flower_id = flower_id /\ e.price_date = d
    THEN {IF e.flower_id = flower_id /\ e.price_date = d THEN [e EXCEPT !.price = p] ELSE e : e \in table}
    ELSE table \cup {[flower_id |-> flower_id, price_date |-> d, price |-> p]}

\* FlowerMasterTab.add_price, with the flower row selected
add_price(flower_editing_id, d, p) ==
    /\ \E f \in flowers : f.id = flower_editing_id
    /\ flower_prices' = UpsertFlowerPrice(flower_prices, flower_editing_id, d, p)
    /\ last' = Priced("Price saved", flower_editing_id, d, p)
    /\ UNCHANGED <<FlowerMaster, CustomerMaster, BuyerMaster, DailySheet, seq, flowers, flowers_seq,
                   DailyFlowerPrice, customers, customers_seq, daily_entries, daily_entries_seq,
                   cb_customer, cb_flower, cb_flower_current, d_date, rate_field>>

\* FlowerMasterTab.delete_price, with a row of the price history selected
\* and the question confirmed
delete_price(flower_id, d) ==
    /\ \E e \in flower_prices : e.flower_id = flower_id /\ e.price_date = d
    /\ flower_prices' = {e \in flower_prices : ~(e.flower_id = flower_id /\ e.price_date = d)}
    /\ last' = Priced("Price deleted", flower_id, d, 0)
    /\ UNCHANGED <<FlowerMaster, CustomerMaster, BuyerMaster, DailySheet, seq, flowers, flowers_seq,
                   DailyFlowerPrice, customers, customers_seq, daily_entries, daily_entries_seq,
                   cb_customer, cb_flower, cb_flower_current, d_date, rate_field>>

\* as LatestPriceDate, but for the earliest date: ORDER BY price_date ASC
EarliestPriceDate(rows) == CHOOSE e \in rows : \A x \in rows : e.price_date <= x.price_date

\* ORDER BY price_date DESC LIMIT 1 over a non-empty set of rows
LatestPriceDate(rows) == CHOOSE e \in rows : \A x \in rows : x.price_date <= e.price_date

\* SELECT price FROM flower_prices WHERE flower_id=? AND price_date<=?
\* ORDER BY price_date DESC LIMIT 1; None is modelled as <<>>, a price p as <<p>>
FetchPrice(table, flower_id, ymd) ==
    LET rows == {e \in table : e.flower_id = flower_id /\ e.price_date <= ymd}
    IN  IF rows = {} THEN <<>> ELSE <<LatestPriceDate(rows).price>>

fetch_today_price(flower_id, ymd) == FetchPrice(flower_prices, flower_id, ymd)

(***************************************************************************)
(* Desktop variant: customers and Daily Entry                              *)
(***************************************************************************)
\* INSERT INTO customers (name, address, phone): id is AUTOINCREMENT, name is UNIQUE
InsertCustomer(table, counter, n, address, phone) ==
    IF \E c \in table : c.name = n
    THEN [table |-> table, counter |-> counter, IntegrityError |-> TRUE]
    ELSE [table |-> table \cup {[id |-> counter + 1, name |-> n, address |-> address, phone |-> phone]},
          counter |-> counter + 1, IntegrityError |-> FALSE]

\* CustomerMasterTab.save_customer
save_customer(name, addr, phone) ==
    LET n == Strip(name)
    IN  /\ IF n = <<>>
           THEN /\ UNCHANGED <<customers, customers_seq>>
                /\ last' = Named("Name required", n)
           ELSE LET res == InsertCustomer(customers, customers_seq, n, Strip(addr), Strip(phone))
                IN  /\ customers' = res.table
                    /\ customers_seq' = res.counter
                    /\ last' = Named(IF res.IntegrityError THEN "Customer already exists" ELSE "Customer saved", n)
        /\ UNCHANGED <<FlowerMaster, CustomerMaster, BuyerMaster, DailySheet, seq, flowers, flowers_seq,
                       DailyFlowerPrice, flower_prices, daily_entries, daily_entries_seq,
                       cb_customer, cb_flower, cb_flower_current, d_date, rate_field>>

\* what DELETE FROM customers WHERE id=? leaves of daily_entries, declared
\* FOREIGN KEY(customer_id) REFERENCES customers(id) ON DELETE CASCADE
EntriesAfterCustomerDelete(table, customer_id) ==
    IF foreign_keys THEN {e \in table : e.customer_id # customer_id} ELSE table

\* CustomerMasterTab.delete_customer, with the row selected and the question
\* confirmed
delete_customer(editing_id) ==
    /\ \E c \in customers : c.id = editing_id
    /\ customers' = {c \in customers : c.id # editing_id}
    /\ daily_entries' = EntriesAfterCustomerDelete(daily_entries, editing_id)
    /\ last' = Named("Customer deleted", <<>>)
    /\ UNCHANGED <<FlowerMaster, CustomerMaster, BuyerMaster, DailySheet, seq, flowers, flowers_seq,
                   DailyFlowerPrice, customers_seq, flower_prices, daily_entries_seq,
                   cb_customer, cb_flower, cb_flower_current, d_date, rate_field>>

\* the byte of a character: ORDER BY name compares the names byte by byte
CharCode(ch) ==
    CASE ch = " " -> 32
      [] ch = "c" -> 99
      [] ch = "p" -> 112
      [] ch = "r" -> 114

\* name s comes before name t
RECURSIVE NameBefore(_, _)
NameBefore(s, t) ==
    IF s = <<>> THEN t # <<>>
    ELSE IF t = <<>> THEN FALSE
    ELSE IF Head(s) = Head(t) THEN NameBefore(Tail(s), Tail(t))
    ELSE CharCode(Head(s)) < CharCode(Head(t))

\* the row that ORDER BY name puts first (name is UNIQUE)
FirstByName(rows) == CHOOSE f \in rows : \A g \in rows : g = f \/ NameBefore(f.name, g.name)

\* if price is not None: self.rate.setValue(price); shown is the value the
\* rate field holds before
RateAfterLookup(price, shown) == IF price # <<>> THEN price[1] ELSE shown

\* MainWindow.reload_all (and the start of the application): reload_lists
\* fills the combo boxes of the Daily Entry tab from the tables, which makes
\* the first item the current one, and then calls on_date_or_flower_change
reload_all ==
    LET fid == IF flowers = {} THEN 0 ELSE FirstByName(flowers).id
    IN  /\ cb_customer' = {[id |-> c.id, name |-> c.name] : c \in customers}
        /\ cb_flower' = flowers
        /\ cb_flower_current' = fid
        /\ rate_field' = IF flowers = {} THEN rate_field
                         ELSE RateAfterLookup(fetch_today_price(fid, d_date), rate_field)
        /\ last' = Did("Reloaded")
        /\ UNCHANGED <<FlowerMaster, CustomerMaster, BuyerMaster, DailySheet, seq, flowers, flowers_seq,
                       DailyFlowerPrice, customers, customers_seq, flower_prices, daily_entries,
                       daily_entries_seq, d_date>>

\* DailyEntryTab.on_date_or_flower_change, called when the flower combo box
\* was changed to fid or the date field to ymd (one of the two is as it was):
\* the rate field is set to the price found, or left as it is; with an empty
\* combo box (fid = 0) the handler returns at once
on_date_or_flower_change(fid, ymd) ==
    /\ IF cb_flower = {} THEN fid = 0 ELSE \E f \in cb_flower : f.id = fid
    /\ fid = cb_flower_current \/ ymd = d_date
    /\ cb_flower_current' = fid
    /\ d_date' = ymd
    /\ IF cb_flower = {}
       THEN /\ rate_field' = rate_field
            /\ last' = Priced("no_flower", fid, ymd, 0)
       ELSE LET price == fetch_today_price(fid, ymd)
            IN  /\ rate_field' = RateAfterLookup(price, rate_field)
                /\ last' = IF price # <<>> THEN Priced("rate_set", fid, ymd, price[1])
                           ELSE Priced("rate_kept", fid, ymd, 0)
    /\ UNCHANGED <<FlowerMaster, CustomerMaster, BuyerMaster, DailySheet, seq, flowers, flowers_seq,
                   DailyFlowerPrice, customers, customers_seq, flower_prices, daily_entries,
                   daily_entries_seq, cb_customer, cb_flower>>

\* float(self.amount.value()) if self.amount.value() else qty * rate
EntryAmount(amount_value, qty, rate) ==
    IF amount_value # 0 THEN amount_value ELSE qty * rate

\* DailyEntryTab.save_entry; the arguments are the values that the form's
\* fields hold when Save is pressed (chosen or typed by the user just
\* before), amount_value that of the Amount field; clear_form leaves the
\* date, the flower and the rate as they are
save_entry(entry_date, customer_id, flower_id, qty, rate, amount_value, balance) ==
    /\ IF cb_customer = {}
       THEN /\ UNCHANGED <<daily_entries, daily_entries_seq, cb_flower_current, d_date, rate_field>>
            /\ last' = Did("Add a customer first")
       ELSE IF cb_flower = {}
       THEN /\ UNCHANGED <<daily_entries, daily_entries_seq, cb_flower_current, d_date, rate_field>>
            /\ last' = Did("Add a flower first")
       ELSE /\ \E c \in cb_customer : c.id = customer_id
            /\ cb_flower_current' = flower_id
            /\ d_date' = entry_date
            /\ rate_field' = rate
            /\ \E f \in cb_flower : f.id = flower_id
            /\ daily_entries' = daily_entries \cup
                  {[id |-> daily_entries_seq + 1, customer_id |-> customer_id, flower_id |-> flower_id,
                    entry_date |-> entry_date, particular |-> "", qty |-> qty, flower_price |-> rate,
                    ded_credit |-> "", amount |-> EntryAmount(amount_value, qty, rate),
                    balance |-> balance]}
            /\ daily_entries_seq' = daily_entries_seq + 1
            /\ last' = [Did("Entry saved") EXCEPT !.id = daily_entries_seq + 1]
    /\ UNCHANGED <<FlowerMaster, CustomerMaster, BuyerMaster, DailySheet, seq, flowers, flowers_seq,
                   DailyFlowerPrice, customers, customers_seq, flower_prices, cb_customer, cb_flower>>

(***************************************************************************)
(* Reports.  A report is the set of its lines.                             *)
(***************************************************************************)
\* what `last` records for a report: the lines shown (in place of a name)
Shown(op, lines) == [Did(op) EXCEPT !.name = lines]

\* as LatestIds, for MIN(Id)
EarliestIds(sheet) ==
    {[BuyerName |-> b,
      MaxId |-> CHOOSE i \in {r.Id : r \in {x \in sheet : x.BuyerName = b}} :
                    \A r \in {x \in sheet : x.BuyerName = b} : i <= r.Id] :
        b \in {r.BuyerName : r \in sheet}}

\* SELECT BuyerName, MAX(Id) as MaxId FROM DailySheet GROUP BY BuyerName
LatestIds(sheet) ==
    {[BuyerName |-> b, MaxId |-> LargestId({x \in sheet : x.BuyerName = b})] :
        b \in {r.BuyerName : r \in sheet}}

\* SELECT d.BuyerName, d.Debt as CurrentDebt FROM DailySheet d INNER JOIN
\* (...) sub ON d.BuyerName = sub.BuyerName AND d.Id = sub.MaxId; a line
\* carries the Id of its row d, so that two joined rows make two lines
BuyerDebts(sheet) ==
    {[BuyerName |-> j[1].BuyerName, CurrentDebt |-> j[1].Debt, Id |-> j[1].Id] :
        j \in {x \in sheet \X LatestIds(sheet) :
                  x[1].BuyerName = x[2].BuyerName /\ x[1].Id = x[2].MaxId}}

\* Reports, Buyer Debts
BuyerDebtsReport ==
    /\ last' = Shown("Buyer Debts", BuyerDebts(DailySheet))
    /\ UNCHANGED <<FlowerMaster, CustomerMaster, BuyerMaster, DailySheet, seq, flowers, flowers_seq,
                   DailyFlowerPrice, desktopRest>>

RECURSIVE SumAmount(_)
SumAmount(rows) ==
    IF rows = {} THEN 0
    ELSE LET r == CHOOSE x \in rows : TRUE
         IN  r.Amount + SumAmount(rows \ {r})

\* SELECT Date, Name, Sum(Amount) as CurrentDebt FROM DailySheet GROUP BY Date, Name
CustomerBalance(sheet) ==
    {[Date |-> g[1], Name |-> g[2],
      CurrentDebt |-> SumAmount({r \in sheet : r.Date = g[1] /\ r.Name = g[2]})] :
        g \in {<<r.Date, r.Name>> : r \in sheet}}

\* Reports, Customer Balance
CustomerBalanceReport ==
    /\ last' = Shown("Customer Balance", CustomerBalance(DailySheet))
    /\ UNCHANGED <<FlowerMaster, CustomerMaster, BuyerMaster, DailySheet, seq, flowers, flowers_seq,
                   DailyFlowerPrice, desktopRest>>

RECURSIVE SumQty(_)
SumQty(rows) ==
    IF rows = {} THEN 0
    ELSE LET r == CHOOSE x \in rows : TRUE
         IN  r.Qty + SumQty(rows \ {r})

\* as DailySalesRows, but without the Date condition
DailySalesRowsAnyDate(sheet, date_str) == sheet

\* SELECT * FROM DailySheet WHERE Date = ?
DailySalesRows(sheet, date_str) == {r \in sheet : r.Date = date_str}

\* as DailySalesReport, but the rows shown are removed from the ledger
DailySalesReportClearing(date_str) ==
    /\ last' = Priced("Daily Sales", DailySalesRows(DailySheet, date_str), date_str, 0)
    /\ DailySheet' = DailySheet \ DailySalesRows(DailySheet, date_str)
    /\ UNCHANGED <<FlowerMaster, CustomerMaster, BuyerMaster, seq, flowers, flowers_seq,
                   DailyFlowerPrice, desktopRest>>

\* Reports, Daily Sales: total_amount = df['Amount'].sum() and the rows of
\* the date, or the message for an empty df
DailySalesReport(date_str) ==
    /\ LET df == DailySalesRows(DailySheet, date_str)
       IN  last' = IF df # {} THEN Priced("Daily Sales", df, date_str, SumAmount(df))
                   ELSE Priced("No transactions for this date.", {}, date_str, 0)
    /\ UNCHANGED <<FlowerMaster, CustomerMaster, BuyerMaster, DailySheet, seq, flowers, flowers_seq,
                   DailyFlowerPrice, desktopRest>>

\* SELECT FlowerName, SUM(Qty) as TotalQty, SUM(Amount) as TotalAmount
\* FROM DailySheet WHERE Date = ? GROUP BY FlowerName
FlowerSalesSummary(sheet, date_str) ==
    {[FlowerName |-> f,
      TotalQty |-> SumQty({r \in sheet : r.Date = date_str /\ r.FlowerName = f}),
      TotalAmount |-> SumAmount({r \in sheet : r.Date = date_str /\ r.FlowerName = f})] :
        f \in {r.FlowerName : r \in {x \in sheet : x.Date = date_str}}}

\* Reports, Flower Sales Summary
FlowerSalesSummaryReport(date_str) ==
    /\ LET df == FlowerSalesSummary(DailySheet, date_str)
       IN  last' = IF df # {} THEN Priced("Flower Sales Summary", df, date_str, 0)
                   ELSE Priced("No sales for this date.", {}, date_str, 0)
    /\ UNCHANGED <<FlowerMaster, CustomerMaster, BuyerMaster, DailySheet, seq, flowers, flowers_seq,
                   DailyFlowerPrice, desktopRest>>

(***************************************************************************)
(* The Daily Sheet on a database whose master tables are filled in.  The   *)
(* Daily Sheet only reads the master tables (the selectbox lists); with    *)
(* fewer master records fewer submissions are possible, so the ledgers     *)
(* reached here include those reached with any smaller master tables.      *)
(***************************************************************************)
SeedFlowers == {[Name |-> "Rose", DisplayName |-> "r"]}
SeedCustomers == {[Name |-> n, Address |-> "x", ContactNo |-> "", DisplayName |-> "d"] : n \in CustomerNames}
SeedBuyers == {[Name |-> n, Address |-> "x", ContactNo |-> "", DisplayName |-> "d"] : n \in BuyerNames}

InitLedger ==
    /\ FlowerMaster = SeedFlowers
    /\ CustomerMaster = SeedCustomers
    /\ BuyerMaster = SeedBuyers
    /\ DailySheet = {}
    /\ seq = 0
    /\ flowers = {}
    /\ flowers_seq = 0
    /\ NoPricesNoEntries
    /\ last = NoOp

\* the Daily Sheet submissions with inputs from the given sets, Ids up to max_id
DailySheetStep(dates, qtys, max_id) ==
    \/ \E d \in dates, n \in {""} \cup CustomerNames, f \in {""} \cup get_flowers,
          q \in qtys, r \in Rates, dc \in Directions, b \in {""} \cup BuyerNames :
            seq < max_id /\ AddTransaction(d, n, f, q, r, dc, b)
    \/ \E id \in 1..max_id, d \in dates, n \in CustomerNames, f \in get_flowers,
          q \in qtys, r \in Rates, dc \in Directions, b \in BuyerNames :
            UpdateTransaction(id, d, n, f, q, r, dc, b)
    \/ \E id \in 1..max_id : DeleteTransaction(id)

\* long runs, one date and one quantity
NextLedger == DailySheetStep({1}, {1}, MaxId)

SpecLedger == InitLedger /\ [][NextLedger]_vars

\* short runs, all dates
NextDates == DailySheetStep(Dates, {1}, MaxWideId)

SpecDates == InitLedger /\ [][NextDates]_vars

\* short runs, all quantities
NextAmounts == DailySheetStep({1}, Qtys, MaxWideId)

SpecAmounts == InitLedger /\ [][NextAmounts]_vars

(***************************************************************************)
(* The master-data forms of both variants on an empty database             *)
(***************************************************************************)
DisplayInputs == {"", " ", "r", "p"}
AddressInputs == {"x", "y"}
TextInputs == {<<>>, <<" ">>, <<"r">>, <<" ", "r">>, <<"r", " ">>, <<"r", "r">>}

StreamlitMasterStep(displays, addresses) ==
    \/ \E n \in {""} \cup FlowerNames, dn \in displays : AddFlower(n, dn)
    \/ \E n \in FlowerNames, dn \in displays : UpdateFlower(n, dn)
    \/ \E n \in FlowerNames : DeleteFlower(n)
    \/ \E n \in {""} \cup CustomerNames, dn \in {"", "d"}, a \in addresses : AddCustomer(n, dn, a, "")
    \/ \E n \in CustomerNames, dn \in {"", "d"}, a \in addresses : UpdateCustomer(n, dn, a, "")
    \/ \E n \in CustomerNames : DeleteCustomer(n)
    \/ \E n \in {""} \cup BuyerNames, dn \in {"", "d"}, a \in addresses : AddBuyer(n, dn, a, "")
    \/ \E n \in BuyerNames, dn \in {"", "d"}, a \in addresses : UpdateBuyer(n, dn, a, "")
    \/ \E n \in BuyerNames : DeleteBuyer(n)

DesktopFlowerStep ==
    \/ \E t \in TextInputs : flowers_seq < MaxFlowerId /\ save_flower(t)
    \/ \E id \in 1..MaxFlowerId, t \in TextInputs : update_flower(id, t)
    \/ \E id \in 1..MaxFlowerId : delete_flower(id)

NextMasters ==
    \/ StreamlitMasterStep(DisplayInputs, AddressInputs)
    \/ DesktopFlowerStep

SpecMasters == Init /\ [][NextMasters]_vars

(***************************************************************************)
(* The price forms of both variants                                        *)
(***************************************************************************)
StreamlitPriceStep ==
    \/ \E f \in get_flowers, d \in Dates, p \in Prices : SetPrice(f, d, p)
    \/ \E f \in get_flowers, d \in Dates, p \in Prices : UpdatePrice(f, d, p)
    \/ \E f \in get_flowers, d \in Dates : DeletePrice(f, d)

DesktopPriceStep ==
    \/ \E t \in DesktopFlowerTexts : flowers_seq < MaxFlowerId /\ save_flower(t)
    \/ \E id \in 1..MaxFlowerId, d \in Dates, p \in Prices : add_price(id, d, p)
    \/ \E id \in 1..MaxFlowerId, d \in Dates : delete_price(id, d)

NextPrices ==
    \/ StreamlitPriceStep
    \/ DesktopPriceStep

SpecPrices == InitLedger /\ [][NextPrices]_vars

(***************************************************************************)
(* Desktop variant: the price lookup of the Daily Entry tab                *)
(***************************************************************************)
NextLookup ==
    \/ DesktopPriceStep
    \/ reload_all
    \/ \E fid \in 0..MaxFlowerId, ymd \in Dates : on_date_or_flower_change(fid, ymd)

SpecLookup == Init /\ [][NextLookup]_vars

(***************************************************************************)
(* The Daily Flower Price page and the Daily Sheet together                *)
(***************************************************************************)
NextPriceLedger ==
    \/ StreamlitPriceStep
    \/ DailySheetStep({1}, {1}, MaxWideId)

SpecPriceLedger == InitLedger /\ [][NextPriceLedger]_vars

(***************************************************************************)
(* The transaction forms of both variants: the Daily Sheet and the desktop *)
(* Daily Entry                                                             *)
(***************************************************************************)
AmountValues == {0, 5}

DesktopEntryStep ==
    \/ save_customer(<<"c">>, <<>>, <<>>)
    \/ flowers_seq < MaxFlowerId /\ save_flower(<<"r">>)
    \/ reload_all
    \/ \E cid \in {0} \cup {c.id : c \in cb_customer}, fid \in {0} \cup {f.id : f \in cb_flower},
          q \in Qtys, r \in Rates, a \in AmountValues :
            /\ seq + daily_entries_seq < MaxEntryId
            /\ cid = 0 <=> (cb_customer = {} \/ cb_flower = {})
            /\ fid = 0 <=> (cb_customer = {} \/ cb_flower = {})
            /\ save_entry(1, cid, fid, q, r, a, 0)

NextEntries ==
    \/ \E n \in {""} \cup CustomerNames, f \in {""} \cup get_flowers, q \in Qtys, r \in Rates,
          dc \in Directions, b \in {""} \cup BuyerNames :
            seq + daily_entries_seq < MaxEntryId /\ AddTransaction(1, n, f, q, r, dc, b)
    \/ \E id \in 1..MaxEntryId, n \in CustomerNames, f \in get_flowers, q \in Qtys, r \in Rates,
          dc \in Directions, b \in BuyerNames :
            UpdateTransaction(id, 1, n, f, q, r, dc, b)
    \/ \E id \in 1..MaxEntryId : DeleteTransaction(id)
    \/ DesktopEntryStep

SpecEntries == InitLedger /\ [][NextEntries]_vars

(***************************************************************************)
(* The Daily Sheet and the reports                                         *)
(***************************************************************************)
NextReports ==
    \/ DailySheetStep({1}, {1}, MaxId)
    \/ BuyerDebtsReport

SpecReports == InitLedger /\ [][NextReports]_vars

NextBalance ==
    \/ DailySheetStep(Dates, {1}, MaxWideId)
    \/ CustomerBalanceReport

SpecBalance == InitLedger /\ [][NextBalance]_vars

\* all four reports, on ledgers of several dates and a price table that
\* holds an entry
ReportStep ==
    \/ \E d \in Dates : DailySalesReport(d)
    \/ CustomerBalanceReport
    \/ BuyerDebtsReport
    \/ \E d \in Dates : FlowerSalesSummaryReport(d)

SeedPrices == {[FlowerName |-> "r-Rose", Date |-> 1, Price |-> 2]}

InitViews ==
    /\ FlowerMaster = SeedFlowers
    /\ CustomerMaster = SeedCustomers
    /\ BuyerMaster = SeedBuyers
    /\ DailySheet = {}
    /\ seq = 0
    /\ flowers = {}
    /\ flowers_seq = 0
    /\ DailyFlowerPrice = SeedPrices
    /\ customers = {}
    /\ customers_seq = 0
    /\ flower_prices = {}
    /\ daily_entries = {}
    /\ daily_entries_seq = 0
    /\ cb_customer = {}
    /\ cb_flower = {}
    /\ cb_flower_current = 0
    /\ d_date = 1
    /\ rate_field = 0
    /\ last = NoOp

NextViews ==
    \/ DailySheetStep(Dates, {1}, MaxWideId)
    \/ ReportStep

SpecViews == InitViews /\ [][NextViews]_vars

(***************************************************************************)
(* The Daily Sheet while master records are deleted, relabelled and added  *)
(* again                                                                   *)
(***************************************************************************)
MasterChangeStep ==
    \/ \E n \in FlowerNames : AddFlower(n, "r")
    \/ \E n \in FlowerNames : UpdateFlower(n, "p")
    \/ \E n \in FlowerNames : DeleteFlower(n)
    \/ \E n \in CustomerNames : DeleteCustomer(n)
    \/ \E n \in BuyerNames : DeleteBuyer(n)

NextOrphans ==
    \/ DailySheetStep({1}, {1}, MaxWideId)
    \/ MasterChangeStep

SpecOrphans == InitLedger /\ [][NextOrphans]_vars

(***************************************************************************)
(* Desktop variant: flowers deleted while they have price entries          *)
(***************************************************************************)
NextCascade ==
    \/ DesktopPriceStep
    \/ \E id \in 1..MaxFlowerId : delete_flower(id)

SpecCascade == Init /\ [][NextCascade]_vars

(***************************************************************************)
(* The Daily Sheet statement by statement.  A handler, once started, runs  *)
(* to its end: the script serves one submission at a time.                 *)
(***************************************************************************)
NextSteps ==
    \/ \E n \in {""} \cup CustomerNames, f \in {""} \cup get_flowers,
          dc \in Directions, b \in {""} \cup BuyerNames :
            seq < MaxWideId /\ InsertCommitted(1, n, f, 1, 2, dc, b)
    \/ \E id \in 1..MaxWideId, n \in CustomerNames, f \in get_flowers,
          dc \in Directions, b \in BuyerNames :
            UpdateCommitted(id, 1, n, f, 1, 2, dc, b)
    \/ \E id \in 1..MaxWideId : DeleteCommitted(id)
    \/ RecalculateNext

SpecSteps == InitLedger /\ [][NextSteps]_vars /\ WF_vars(RecalculateNext)

(***************************************************************************)
(* The Daily Sheet with quantities entered through the number_input widget *)
(***************************************************************************)
EnteredQtys == {0 - 1, 0, 1}

NextQtys == DailySheetStep({1}, NumberInputs(0, EnteredQtys), MaxWideId)

SpecQtys == InitLedger /\ [][NextQtys]_vars

(***************************************************************************)
(* The Streamlit application as a whole, from the empty database           *)
(***************************************************************************)
Next ==
    \/ StreamlitMasterStep({"", "r"}, {"x"})
    \/ StreamlitPriceStep
    \/ DailySheetStep({1}, {1}, MaxWideId)
    \/ ReportStep

Spec == Init /\ [][Next]_vars

(***************************************************************************)
(* recalculate_debts on its own, applied to ledgers whose Debt column is   *)
(* arbitrary (stale): every ledger of up to MaxId rows that the Daily      *)
(* Sheet can hold, with any stored Debt values.                            *)
(***************************************************************************)
StaleDebts == {0, 3}

\* (DebitCredit, BuyerName) of a stored row: Credit rows carry a buyer
StoredDirections ==
    {<<"Debit", b>> : b \in {""} \cup BuyerNames} \cup {<<"Credit", b>> : b \in BuyerNames}

StaleRow(id, d, q, db, debt) ==
    [Id |-> id, Date |-> d, Name |-> "c1", FlowerName |-> "r-Rose", Qty |-> q, Rate |-> 2,
     Amount |-> q * 2, DebitCredit |-> db[1], Debt |-> debt, BuyerName |-> db[2]]

\* the ledgers with Ids among 1..max_id; pick[id] = <<>> leaves the Id out
StaleLedgers(max_id, d, qtys, debts) ==
    LET choices == {<<q, db, debt>> : q \in qtys, db \in StoredDirections, debt \in debts}
    IN  {{StaleRow(id, d, pick[id][1], pick[id][2], pick[id][3]) : id \in {i \in 1..max_id : pick[i] # <<>>}} :
            pick \in [1..max_id -> {<<>>} \cup choices]}

InitStale(ledgers) ==
    /\ FlowerMaster = SeedFlowers
    /\ CustomerMaster = SeedCustomers
    /\ BuyerMaster = SeedBuyers
    /\ DailySheet \in ledgers
    /\ seq = LargestId(DailySheet)
    /\ flowers = {}
    /\ flowers_seq = 0
    /\ NoPricesNoEntries
    /\ last = NoOp

\* a direct call recalculate_debts(conn, buyer_name)
Recalculate(buyer_name) ==
    /\ DailySheet' = recalculate_debts(DailySheet, buyer_name)
    /\ last' = [op |-> "recalculate", id |-> 0, buyer |-> buyer_name, dc |-> "", name |-> "", price |-> 0]
    /\ UNCHANGED <<FlowerMaster, CustomerMaster, BuyerMaster, seq, flowers, flowers_seq, DailyFlowerPrice, desktopRest>>

InitRecalc == InitStale(StaleLedgers(MaxId, 1, Qtys, StaleDebts))

NextRecalc == \E b \in {""} \cup BuyerNames : Recalculate(b)

SpecRecalc == InitRecalc /\ [][NextRecalc]_vars

\* the Daily Sheet and direct recalculations on ledgers with stale Debt values;
\* the stale rows are dated 2 and the submissions write date 1, so that a row
\* dated 2 is one that no submission has written
InitRepair == InitStale(StaleLedgers(MaxWideId, 2, {1}, {3}))

NextRepair ==
    \/ \E b \in {""} \cup BuyerNames : Recalculate(b)
    \/ DailySheetStep({1}, {1}, MaxWideId)

SpecRepair == InitRepair /\ [][NextRepair]_vars

(***************************************************************************)
(* Properties                                                              *)
(***************************************************************************)
\* the Credit rows of a buyer, read off the table
CreditOf(sheet, b) == {r \in sheet : r.DebitCredit = "Credit" /\ r.BuyerName = b}

\* the prefix-sum invariant for buyer b: each Credit row's Debt is the sum of
\* the Amounts of b's Credit rows with an Id up to its own
PrefixSumHolds(sheet, b) ==
    \A r \in CreditOf(sheet, b) :
        r.Debt = SumAmount({x \in CreditOf(sheet, b) : x.Id <= r.Id})

AllBuyers == {""} \cup BuyerNames

\* C1: after recalculate_debts(B) the Debt of B's k-th Credit row (by
\* ascending Id) is the sum of the Amounts of B's first k Credit rows, for
\* every number of Credit rows.
C1_PrefixSumAfterRecalculate ==
    last.op = "recalculate" => PrefixSumHolds(DailySheet, last.buyer)

\* a recalculation of a buyer with three Credit rows has completed (their
\* initial Debt values, 0 or 3, were all stale)
C1_Witness ==
    /\ last.op = "recalculate"
    /\ Cardinality(CreditOf(DailySheet, last.buyer)) >= 3

\* C3: recalculate_debts is idempotent: a second call right after the first
\* leaves every row as the first call left it.
C3_Idempotent ==
    last.op = "recalculate" => recalculate_debts(DailySheet, last.buyer) = DailySheet

\* a recalculation of a buyer with two Credit rows of different Amounts has
\* completed
C3_Witness ==
    /\ last.op = "recalculate"
    /\ \E r1, r2 \in CreditOf(DailySheet, last.buyer) : r1.Amount < r2.Amount

\* a row without its Debt
StripDebt(r) == [r EXCEPT !.Debt = 0]

\* C7: recalculate_debts(B) changes nothing but the Debt of B's Credit rows:
\* the rows, their Ids and their other fields stay, Debit rows and the rows
\* of other buyers keep their Debt, and with no Credit row of B the ledger
\* is unchanged.
C7_Frame ==
    [][last'.op = "recalculate" =>
        /\ {StripDebt(r) : r \in DailySheet'} = {StripDebt(r) : r \in DailySheet}
        /\ Cardinality(DailySheet') = Cardinality(DailySheet)
        /\ \A r \in DailySheet :
              ~(r.DebitCredit = "Credit" /\ r.BuyerName = last'.buyer) => r \in DailySheet'
        /\ CreditOf(DailySheet, last'.buyer) = {} => DailySheet' = DailySheet]_vars

\* a recalculation of B has rewritten B's Credit rows (the initial Debt
\* values are all stale) in a ledger that also holds a Debit row of B and a
\* stale Credit row of another buyer
C7_Witness ==
    /\ last.op = "recalculate"
    /\ CreditOf(DailySheet, last.buyer) # {}
    /\ \E r \in DailySheet : r.DebitCredit = "Debit" /\ r.BuyerName = last.buyer
    /\ \E r \in DailySheet : /\ r.DebitCredit = "Credit" /\ r.BuyerName # last.buyer
                               /\ ~PrefixSumHolds(DailySheet, r.BuyerName)

\* a ledger with its Debt column wiped
Scrub(sheet) == {StripDebt(r) : r \in sheet}

\* the buyers of the rows that a step wrote, changed or removed
AffectedBuyers(sheet, sheet2) ==
    {r.BuyerName : r \in (sheet \ sheet2) \cup (sheet2 \ sheet)}

\* C8: what recalculate_debts(B) stores depends on the Ids and Amounts of B's
\* Credit rows only, not on the Debt values stored before: from a ledger with
\* arbitrary Debt values one call, or any Daily Sheet add, update or delete
\* affecting B, restores the prefix-sum invariant for B.
C8_RepairsStaleDebts ==
    [][/\ last'.op = "recalculate" =>
            /\ CreditOf(DailySheet', last'.buyer)
                 = CreditOf(recalculate_debts(Scrub(DailySheet), last'.buyer), last'.buyer)
            /\ PrefixSumHolds(DailySheet', last'.buyer)
       /\ last'.op \in {"add", "update", "delete"} =>
            \A b \in AffectedBuyers(DailySheet, DailySheet') \cup {last'.buyer} :
                PrefixSumHolds(DailySheet', b)]_vars

\* a Daily Sheet submission has just repaired a buyer: a Credit row that was
\* stale in the initial ledger and that no submission has written (it is
\* still dated 2) now carries the sum of two rows
C8_Witness ==
    /\ last.op \in {"add", "update", "delete"}
    /\ PrefixSumHolds(DailySheet, last.buyer)
    /\ \E r1, r2 \in CreditOf(DailySheet, last.buyer) : r1.Id < r2.Id /\ r2.Date = 2

\* the row with the given Id
RowOf(sheet, id) == CHOOSE r \in sheet : r.Id = id

HasRow(sheet, id) == \E r \in sheet : r.Id = id

\* C2: after any sequence of completed Daily Sheet adds, updates and deletes
\* the prefix-sum invariant holds for every buyer.
C2_PrefixSumInvariant ==
    \A b \in AllBuyers : PrefixSumHolds(DailySheet, b)

\* an update has completed on a ledger where one buyer has two Credit rows and
\* a Debit row stored before them
C2_Witness ==
    /\ last.op = "update"
    /\ \E r1, r2, r3 \in DailySheet :
          /\ r1.BuyerName = r2.BuyerName /\ r2.BuyerName = r3.BuyerName
          /\ r1.DebitCredit = "Debit" /\ r2.DebitCredit = "Credit" /\ r3.DebitCredit = "Credit"
          /\ r1.Id < r2.Id /\ r2.Id < r3.Id

\* C5: when an update moves a Credit transaction from buyer A to buyer B,
\* afterwards the prefix-sum invariant holds for A, without the row, and for B,
\* with the row at its Id position.
C5_BuyerReassignment ==
    (/\ last.op = "update"
     /\ HasRow(DailySheet, last.id)
     /\ RowOf(DailySheet, last.id).BuyerName # last.buyer
     /\ (last.dc = "Credit" \/ RowOf(DailySheet, last.id).DebitCredit = "Credit"))
    => /\ PrefixSumHolds(DailySheet, last.buyer)
       /\ PrefixSumHolds(DailySheet, RowOf(DailySheet, last.id).BuyerName)
       /\ \A r \in CreditOf(DailySheet, last.buyer) : r.Id # last.id

\* a Credit row has just been moved from a buyer who keeps a Credit row to a
\* buyer who has a Credit row with a larger Id
C5_Witness ==
    /\ last.op = "update"
    /\ last.dc = "Credit"
    /\ HasRow(DailySheet, last.id)
    /\ LET row == RowOf(DailySheet, last.id)
       IN  /\ row.DebitCredit = "Credit"
           /\ row.BuyerName # last.buyer
           /\ CreditOf(DailySheet, last.buyer) # {}
           /\ \E x \in CreditOf(DailySheet, row.BuyerName) : x.Id > row.Id

\* the Credit rows of buyer b as a ledger holds them when only they were ever
\* added, one after the other in Id order
RECURSIVE AddedInOrder(_, _, _)
AddedInOrder(rows, b, sheet) ==
    IF rows = {} THEN sheet
    ELSE LET r == CHOOSE x \in rows : \A y \in rows : x.Id <= y.Id
             row == [r EXCEPT !.Debt = AddNewDebt(sheet, "Credit", b, r.Amount)]
         IN  AddedInOrder(rows \ {r}, b, recalculate_debts(sheet \cup {row}, b))

\* C6: after deleting a Credit row of buyer B, B's remaining Credit rows
\* carry the Debt values of a ledger into which the deleted row was never
\* inserted.
C6_DeletionRebalances ==
    (last.op = "delete" /\ last.dc = "Credit")
    => /\ ~HasRow(DailySheet, last.id)
       /\ CreditOf(DailySheet, last.buyer)
            = AddedInOrder(CreditOf(DailySheet, last.buyer), last.buyer, {})

\* a Credit row has just been deleted and the same buyer keeps a Credit row
\* with a larger Id
C6_Witness ==
    /\ last.op = "delete"
    /\ last.dc = "Credit"
    /\ \E x \in CreditOf(DailySheet, last.buyer) : x.Id > last.id

\* C9: an add with an empty customer or flower name, or with direction Credit
\* and an empty buyer, writes no row; hence every stored row has a customer
\* and a flower, and every stored Credit row has a buyer.
C9_CreditHasBuyer ==
    /\ \A r \in DailySheet :
          /\ r.Name # ""
          /\ r.FlowerName # ""
          /\ r.DebitCredit = "Credit" => r.BuyerName # ""

\* an add has just been rejected on a ledger that holds a Debit row without
\* a buyer
C9_Witness ==
    /\ last.op = "add_rejected"
    /\ \E r \in DailySheet : r.DebitCredit = "Debit" /\ r.BuyerName = ""

\* the step is an update that changed nothing but the Date of its row (and
\* possibly the Debt columns)
DateOnlyUpdate ==
    /\ last'.op = "update"
    /\ HasRow(DailySheet, last'.id)
    /\ HasRow(DailySheet', last'.id)
    /\ LET old == RowOf(DailySheet, last'.id)
           new == RowOf(DailySheet', last'.id)
       IN  /\ old.Date # new.Date
           /\ [StripDebt(new) EXCEPT !.Date = old.Date] = StripDebt(old)

\* the Debt stored on the row with the given Id
DebtOf(sheet, id) == RowOf(sheet, id).Debt

UniqueNames(sFlowerMaster, sCustomerMaster, sBuyerMaster, sflowers) ==
    /\ \A f, g \in sFlowerMaster : f.Name = g.Name => f = g
    /\ \A c, d \in sCustomerMaster : c.Name = d.Name => c = d
    /\ \A b, d \in sBuyerMaster : b.Name = d.Name => b = d
    /\ \A f, g \in sflowers : f.name = g.name => f = g

\* C10: an add of a Flower, Customer or Buyer that reaches the INSERT with a
\* name the table already holds is answered with the "already exists" signal
\* and leaves the table as it was, the existing record with its attributes;
\* and after every step each table holds at most one record per name.  (A
\* Streamlit add with a blank display name is turned down before the INSERT.)
C10_DuplicateAddRejected ==
    [][ /\ (/\ last'.op \in {"flower_added", "flower_exists"}
            /\ \E f \in FlowerMaster : f.Name = last'.name)
           => (last'.op = "flower_exists" /\ FlowerMaster' = FlowerMaster)
        /\ (/\ last'.op \in {"customer_added", "customer_exists"}
            /\ \E c \in CustomerMaster : c.Name = last'.name)
           => (last'.op = "customer_exists" /\ CustomerMaster' = CustomerMaster)
        /\ (/\ last'.op \in {"buyer_added", "buyer_exists"}
            /\ \E b \in BuyerMaster : b.Name = last'.name)
           => (last'.op = "buyer_exists" /\ BuyerMaster' = BuyerMaster)
        /\ (/\ last'.op \in {"Saved", "Flower already exists"}
            /\ \E f \in flowers : f.name = last'.name)
           => (last'.op = "Flower already exists" /\ flowers' = flowers)
        /\ UniqueNames(FlowerMaster', CustomerMaster', BuyerMaster', flowers')
      ]_vars

\* a second add of "Rose" was just turned down while the record holds the
\* display name "p"; the other tables hold records too
C10_Witness ==
    /\ last.op = "flower_exists"
    /\ last.name = "Rose"
    /\ FlowerMaster = {[Name |-> "Rose", DisplayName |-> "p"]}
    /\ CustomerMaster # {}
    /\ BuyerMaster # {}
    /\ Cardinality(flowers) = 2

\* the entries of a Streamlit price table other than that of the key
OtherPrices(table, flower_name, d) ==
    {e \in table : ~(e.FlowerName = flower_name /\ e.Date = d)}

\* the entries of a desktop price table other than that of the key
OtherFlowerPrices(table, flower_id, d) ==
    {e \in table : ~(e.flower_id = flower_id /\ e.price_date = d)}

\* C11: setting a price is an upsert: afterwards the table holds exactly one
\* entry for the (flower, date) submitted, with the price submitted, whether
\* or not an entry for the key existed, and the entries of all other keys are
\* as before; no table ever holds two entries for one key.
C11_SetPriceIsUpsert ==
    [][ /\ last'.op \in {"price_set", "price_updated"} =>
            /\ DailyFlowerPrice' \ OtherPrices(DailyFlowerPrice', last'.name, last'.id)
                 = {[FlowerName |-> last'.name, Date |-> last'.id, Price |-> last'.price]}
            /\ OtherPrices(DailyFlowerPrice', last'.name, last'.id)
                 = OtherPrices(DailyFlowerPrice, last'.name, last'.id)
        /\ last'.op = "Price saved" =>
            /\ flower_prices' \ OtherFlowerPrices(flower_prices', last'.name, last'.id)
                 = {[flower_id |-> last'.name, price_date |-> last'.id, price |-> last'.price]}
            /\ OtherFlowerPrices(flower_prices', last'.name, last'.id)
                 = OtherFlowerPrices(flower_prices, last'.name, last'.id)
        /\ \A e, x \in DailyFlowerPrice' : (e.FlowerName = x.FlowerName /\ e.Date = x.Date) => e = x
        /\ \A e, x \in flower_prices' : (e.flower_id = x.flower_id /\ e.price_date = x.price_date) => e = x
      ]_vars

\* a price has just been set over an existing entry of another price, while
\* the table holds an entry of another key; the desktop table holds prices
\* of two flowers
C11_Witness ==
    /\ last.op = "price_updated"
    /\ last.price = 2
    /\ [FlowerName |-> last.name, Date |-> last.id, Price |-> 2] \in DailyFlowerPrice
    /\ OtherPrices(DailyFlowerPrice, last.name, last.id) # {}
    /\ \E e, x \in flower_prices : e.flower_id # x.flower_id

\* the price entries of a flower dated on or before a day
PricesUpTo(table, flower_id, ymd) ==
    {e \in table : e.flower_id = flower_id /\ e.price_date <= ymd}

\* C12: fetch_today_price(flower, date) yields the price of the flower's entry
\* with the greatest date on or before the query date, and None exactly when
\* the flower has no such entry; entries of other flowers and entries dated
\* after the query date do not influence the result.
C12_EffectivePrice ==
    /\ last.op \in {"rate_set", "rate_kept"} =>
          LET cands == PricesUpTo(flower_prices, last.name, last.id)
          IN  /\ last.op = "rate_kept" <=> cands = {}
              /\ last.op = "rate_set" =>
                    \E e \in cands : /\ \A x \in cands : x.price_date <= e.price_date
                                     /\ e.price = last.price
    /\ \A f \in 1..MaxFlowerId, d \in Dates :
          fetch_today_price(f, d) = FetchPrice(PricesUpTo(flower_prices, f, d), f, d)

\* a lookup for day 2 has found the price of day 2 although the flower also
\* has an entry for day 1 with another price and another flower has an
\* entry for day 2 with another price
C12_Witness ==
    /\ last.op = "rate_set"
    /\ last.id = 2
    /\ \E e1, e2, o \in flower_prices :
          /\ e1.flower_id = last.name /\ e1.price_date = 1 /\ e1.price # last.price
          /\ e2.flower_id = last.name /\ e2.price_date = 2 /\ e2.price = last.price
          /\ o.flower_id # last.name /\ o.price_date = 2 /\ o.price # last.price

\* C13: in the add-transaction form the default rate presented when no
\* price entry exists for (flower, date) differs from the default presented
\* when a price of 0 is stored for (flower, date).
C13_AbsentDiffersFromZero ==
    \A f \in get_flowers, d1, d2 \in Dates :
        (/\ [FlowerName |-> f, Date |-> d1, Price |-> 0] \in DailyFlowerPrice
         /\ PriceResult(DailyFlowerPrice, f, d2) = <<>>)
        => default_rate(DailyFlowerPrice, f, d1) # default_rate(DailyFlowerPrice, f, d2)

\* C14: every transaction row written by an add or an update, in the
\* Streamlit Daily Sheet and in the desktop Daily Entry, stores an amount equal
\* to quantity x rate of the values entered for the row.
C14_AmountIsQtyTimesRate ==
    /\ \A r \in DailySheet : r.Amount = r.Qty * r.Rate
    /\ \A e \in daily_entries : e.amount = e.qty * e.flower_price

\* C15: setting, updating or deleting a price entry leaves every stored
\* transaction row as it is, with its rate, amount and debt.
C15_PriceChangeKeepsLedger ==
    [][last'.op \in {"price_set", "price_updated", "price_edited", "price_deleted"}
         => DailySheet' = DailySheet]_vars

\* a price of 0 has just been set for the flower and date of a stored
\* transaction whose rate is 2
C15_Witness ==
    /\ last.op \in {"price_set", "price_updated"}
    /\ last.price = 0
    /\ \E r \in DailySheet : r.FlowerName = last.name /\ r.Date = last.id /\ r.Rate = 2 /\ r.Amount = 2

\* the Ids of the rows of a ledger
IdsOf(sheet) == {r.Id : r \in sheet}

\* C16: transaction Ids are unique and strictly increasing in creation order:
\* an add gives the new row an Id larger than every Id handed out before,
\* also after the row with the largest Id was deleted; an update keeps the
\* Ids as they are and a delete removes only the Id of its row.
C16_IdsNeverReused ==
    [][ /\ seq' >= seq
        /\ \A r \in DailySheet' : r.Id >= 1 /\ r.Id <= seq'
        /\ \A r1, r2 \in DailySheet' : r1.Id = r2.Id => r1 = r2
        /\ last'.op = "add" =>
              /\ last'.id > seq
              /\ IdsOf(DailySheet') = IdsOf(DailySheet) \cup {last'.id}
        /\ last'.op = "update" =>
              /\ last'.id \in IdsOf(DailySheet)
              /\ IdsOf(DailySheet') = IdsOf(DailySheet)
              /\ seq' = seq
        /\ last'.op = "delete" =>
              /\ IdsOf(DailySheet') = IdsOf(DailySheet) \ {last'.id}
              /\ seq' = seq
      ]_vars

\* a row has just been added with Id 3 after the row with Id 2 was deleted
\* while it had the largest Id; row 1 is still there
C16_Witness ==
    /\ last.op = "add"
    /\ last.id = 3
    /\ IdsOf(DailySheet) = {1, 3}

\* C17: the Debt written with a new row is the signed sum of the buyer's
\* existing rows plus the signed amount of the new row, for a Credit and for
\* a Debit row alike.  (The value written with a Debit row is the one that
\* stays stored; that of a Credit row is rewritten by the recalculation.)
C17_InsertDebtIsRunningBalance ==
    [][last'.op = "add" =>
         LET row == RowOf(DailySheet', last'.id)
             new_debt == AddNewDebt(DailySheet, row.DebitCredit, row.BuyerName, row.Amount)
         IN  /\ new_debt = current_debt(DailySheet, row.BuyerName) + SignedAmount(row)
             /\ row.DebitCredit = "Debit" => row.Debt = new_debt]_vars

\* the rows of a buyer
RowsOfBuyer(sheet, b) == {r \in sheet : r.BuyerName = b}

\* C18: the Buyer Debts report has, for each buyer name occurring in the
\* ledger, exactly one line, and its value is the Debt of the row with the
\* largest Id among all rows of that buyer, whatever its direction; it has
\* no other line.
C18_BuyerDebtsReport ==
    last.op = "Buyer Debts" =>
        /\ \A b \in {r.BuyerName : r \in DailySheet} :
              /\ Cardinality({l \in last.name : l.BuyerName = b}) = 1
              /\ \A l \in last.name : l.BuyerName = b =>
                    \E r \in RowsOfBuyer(DailySheet, b) :
                        /\ \A x \in RowsOfBuyer(DailySheet, b) : x.Id <= r.Id
                        /\ l.CurrentDebt = r.Debt
        /\ \A l \in last.name : RowsOfBuyer(DailySheet, l.BuyerName) # {}

\* the report has just been shown for a ledger in which one buyer has a
\* Credit row followed by a Debit row with another Debt, and another buyer
\* has a row
C18_Witness ==
    /\ last.op = "Buyer Debts"
    /\ Cardinality(last.name) = 2
    /\ \E r1, r2 \in DailySheet :
          /\ r1.BuyerName = r2.BuyerName /\ r1.Id < r2.Id /\ r1.Debt # r2.Debt
          /\ r1.DebitCredit = "Credit" /\ r2.DebitCredit = "Debit"

\* C19: the debt the Buyer Debts report shows for a buyer is the cumulative
\* signed sum of the buyer's transactions up to and including the buyer's
\* latest row, a Credit counted as +amount and a Debit as -amount.
C19_TrackedDebtIsSignedSum ==
    last.op = "Buyer Debts" =>
        \A l \in last.name :
            l.CurrentDebt = SumSigned({r \in RowsOfBuyer(DailySheet, l.BuyerName) : r.Id <= l.Id})

\* C20: the Customer Balance report shows, for each (date, customer) group,
\* the sum of the signed amounts of the group's rows.
C20_CustomerBalanceSigned ==
    last.op = "Customer Balance" =>
        \A l \in last.name :
            l.CurrentDebt = SumSigned({r \in DailySheet : r.Date = l.Date /\ r.Name = l.Name})

\* the operations of `last` that are report views
ReportOps ==
    {"Daily Sales", "No transactions for this date.", "Customer Balance", "Buyer Debts",
     "Flower Sales Summary", "No sales for this date."}

\* C21: the total of the Daily Sales report for a date is the sum of Amount
\* over all rows of that date, Debit and Credit rows alike and unsigned, and
\* rows of other dates do not contribute; the report shows no total exactly
\* when the date has no row.
C21_DailySalesTotal ==
    /\ last.op = "Daily Sales" =>
          LET on == {r \in DailySheet : r.Date = last.id}
          IN  /\ on # {}
              /\ last.name = on
              /\ last.price = SumAmount({r \in on : r.DebitCredit = "Credit"})
                                + SumAmount({r \in on : r.DebitCredit = "Debit"})
              /\ last.price + SumAmount(DailySheet \ on) = SumAmount(DailySheet)
    /\ last.op = "No transactions for this date." => \A r \in DailySheet : r.Date # last.id

\* the report has just been shown for a date that has a Debit row, while the
\* ledger also holds a row of another date
C21_Witness ==
    /\ last.op = "Daily Sales"
    /\ last.price = 2
    /\ \E r \in DailySheet : r.Date = last.id /\ r.DebitCredit = "Debit"
    /\ \E r \in DailySheet : r.Date # last.id

\* C22: every report view is a pure read: showing Daily Sales, Customer
\* Balance, Buyer Debts or Flower Sales Summary leaves the five tables, every
\* Debt included, and the Id counter as they were.
C22_ReportsArePureReads ==
    [][last'.op \in ReportOps =>
         /\ FlowerMaster' = FlowerMaster
         /\ CustomerMaster' = CustomerMaster
         /\ BuyerMaster' = BuyerMaster
         /\ DailySheet' = DailySheet
         /\ DailyFlowerPrice' = DailyFlowerPrice
         /\ seq' = seq]_vars

\* a report with lines has just been shown while all five tables hold
\* records, the ledger a Credit row with a debt
C22_Witness ==
    /\ last.op \in ReportOps
    /\ last.name # {}
    /\ FlowerMaster # {} /\ CustomerMaster # {} /\ BuyerMaster # {}
    /\ DailyFlowerPrice # {}
    /\ \E r \in DailySheet : r.DebitCredit = "Credit" /\ r.Debt > 0

\* C23: deleting a Flower, Customer or Buyer record is not blocked by the
\* transactions that name it and modifies no transaction row: the record is
\* removed and the ledger, with the orphaned name, the amounts and the debts,
\* is as before.
C23_MasterDeleteKeepsLedger ==
    [][ /\ last'.op \in {"flower_deleted", "customer_deleted", "buyer_deleted"} => DailySheet' = DailySheet
        /\ last'.op = "flower_deleted" => \A f \in FlowerMaster' : f.Name # last'.name
        /\ last'.op = "customer_deleted" => last'.name \notin {c.Name : c \in CustomerMaster'}
        /\ last'.op = "buyer_deleted" => last'.name \notin {b.Name : b \in BuyerMaster'}
        /\ \A f \in FlowerMaster : ENABLED DeleteFlower(f.Name)
        /\ \A c \in CustomerMaster : ENABLED DeleteCustomer(c.Name)
        /\ \A b \in BuyerMaster : ENABLED DeleteBuyer(b.Name)
      ]_vars

\* a buyer has just been deleted whose name a Credit row with a debt still
\* carries
C23_Witness ==
    /\ last.op = "buyer_deleted"
    /\ last.name \notin get_buyers
    /\ \E r \in DailySheet : r.BuyerName = last.name /\ r.DebitCredit = "Credit" /\ r.Debt = 2

\* C24: in the desktop variant, deleting a flower deletes all price entries
\* of that flower: after delete_flower no flower_prices row carries the
\* deleted flower id, and the price entries of other flowers are unchanged.
C24_DeleteFlowerCascades ==
    [][last'.op = "Deleted" =>
         /\ \A e \in flower_prices' : e.flower_id # last'.id
         /\ {e \in flower_prices' : e.flower_id # last'.id}
              = {e \in flower_prices : e.flower_id # last'.id}]_vars

\* C25: every committed Daily Sheet write is followed, before another ledger
\* operation starts, by the recalculation of the affected buyers: an add
\* recalculates the row's buyer once, a delete the row's previous buyer once,
\* an update the previous buyer once and then the new buyer once when it
\* differs; the write changes no row but its own, and the handler always
\* comes to its end.
C25_RecalculationFollowsWrite ==
    /\ [][ /\ (last'.op \in Running /\ last.op \notin Running) =>
                /\ \A r \in DailySheet : r.Id # last'.id => r \in DailySheet'
                /\ \A r \in DailySheet' : r.Id # last'.id => r \in DailySheet
                /\ last'.op = "add_running" =>
                      last'.name = <<RowOf(DailySheet', last'.id).BuyerName>>
                /\ last'.op = "delete_running" =>
                      /\ ~HasRow(DailySheet', last'.id)
                      /\ last'.name = <<RowOf(DailySheet, last'.id).BuyerName>>
                /\ last'.op = "update_running" =>
                      LET old == RowOf(DailySheet, last'.id).BuyerName
                          new == RowOf(DailySheet', last'.id).BuyerName
                      IN  last'.name = IF new # old THEN <<old, new>> ELSE <<old>>
           /\ last.op \in Running =>
                /\ DailySheet' = recalculate_debts(DailySheet, Head(last.name))
                /\ last'.id = last.id
                /\ IF Len(last.name) = 1
                   THEN last'.op = Finished(last.op)
                   ELSE last'.op = last.op /\ last'.name = Tail(last.name)
         ]_vars
    /\ (last.op \in Running) ~> (last.op \in {"add", "update", "delete"})

\* an update that moved a Credit row to another buyer has recalculated the
\* previous buyer; the call for the new buyer is still to come and the new
\* buyer's Credit rows do not yet carry their running sums
C25_Witness ==
    /\ last.op = "update_running"
    /\ Pending(last) # <<last.buyer>>
    /\ Len(Pending(last)) = 1
    /\ ~PrefixSumHolds(DailySheet, Head(Pending(last)))

\* C26: in every reachable ledger Qty, Rate and Amount of every row are
\* non-negative; hence after every completed Daily Sheet operation the Debt
\* values of each buyer's Credit rows are non-negative and non-decreasing in
\* Id order, and the last one is the total of the buyer's Credit Amounts.
C26_NonNegativeMonotoneDebts ==
    /\ \A r \in DailySheet : r.Qty >= 0 /\ r.Rate >= 0 /\ r.Amount >= 0
    /\ \A b \in AllBuyers :
          /\ \A r \in CreditOf(DailySheet, b) : r.Debt >= 0
          /\ \A r1, r2 \in CreditOf(DailySheet, b) : r1.Id < r2.Id => r1.Debt <= r2.Debt
          /\ \A r \in CreditOf(DailySheet, b) :
                r.Id = LargestId(CreditOf(DailySheet, b)) => r.Debt = SumAmount(CreditOf(DailySheet, b))

\* an operation has completed on a ledger in which a buyer's Credit row of
\* quantity 0 follows a Credit row of the same buyer and repeats its debt
C26_Witness ==
    /\ last.op \in {"add", "update", "delete"}
    /\ \E r1, r2 \in DailySheet :
          /\ r1.BuyerName = r2.BuyerName /\ r1.Id < r2.Id
          /\ r1.DebitCredit = "Credit" /\ r2.DebitCredit = "Credit"
          /\ r2.Qty = 0 /\ r1.Debt = 2 /\ r2.Debt = 2

\* C27: every stored transaction row can be updated and deleted through the
\* edit form: for every stored Id the Delete and the Update submission are
\* enabled, also for a Debit row stored with an empty buyer and for a row
\* whose customer, flower or buyer record was deleted or relabelled.
C27_EveryRowEditable ==
    \A r \in DailySheet :
        /\ ENABLED DeleteTransaction(r.Id)
        /\ ENABLED (\E n \in get_customers, f \in get_flowers, b \in get_buyers :
                       UpdateTransaction(r.Id, r.Date, n, f, r.Qty, r.Rate, r.DebitCredit, b))

\* C28: an Update submitted with the values the row already has changes no
\* field of any row, the Debt of the updated row included, for a Credit and
\* for a Debit row alike.
C28_UnchangedUpdateIsNoOp ==
    [][(/\ last'.op = "update"
        /\ StripDebt(RowOf(DailySheet', last'.id)) = StripDebt(RowOf(DailySheet, last'.id)))
       => DailySheet' = DailySheet]_vars

\* C29: for a Credit add, the "New Debt" shown on the add form is the Debt
\* stored on the new row once the insert and the recalculation are done,
\* whatever rows the buyer had before, Debit rows included.
C29_ShownDebtIsStoredDebt ==
    [][(last'.op = "add" /\ last'.dc = "Credit") =>
         LET row == RowOf(DailySheet', last'.id)
         IN  row.Debt = AddNewDebt(DailySheet, "Credit", row.BuyerName, row.Amount)]_vars

\* C30: in the desktop Daily Entry form, after a change of the flower or of
\* the date the rate field holds the effective price of the selected flower
\* on the selected date, and no price of a flower or date selected before:
\* when the selection has no effective price the field shows none (0, the
\* value of the empty field).
C30_RateFollowsSelection ==
    last.op \in {"rate_set", "rate_kept"} =>
        LET price == FetchPrice(flower_prices, cb_flower_current, d_date)
        IN  rate_field = IF price # <<>> THEN price[1] ELSE 0

====
